---- MODULE Spec2Model ----
(***************************************************************************)
(* A model of the SMTP client of src/index.js: the MySMTPClient session    *)
(* (socket, connected, authenticated, buffer, currentHandler), its         *)
(* promise-returning methods, the top-level sendMail(options, mailOptions) *)
(* flow, and the environment they run against (Node sockets and timers, an *)
(* SMTP server that answers each write).                                   *)
(*                                                                         *)
(* Scheduling follows the Node event loop: a socket or timer callback is   *)
(* one atomic action; the continuation of an await whose promise has       *)
(* settled is a microtask, so it runs before any further callback (Quiet). *)
(***************************************************************************)
EXTENDS Integers, Sequences, FiniteSets, TLC

\* Bounds of the model.
MaxRcpt == 2          \* recipients of one mailOptions.to
MaxCalls == 2         \* method calls a direct user of the class makes
MaxSockets == 2       \* sockets opened on one client
MaxCont == 2          \* replies (the greeting included) that carry a continuation line
MaxStream == 4        \* bytes of an arbitrary stream that are in flight or in the buffer
MaxAtt == 2           \* attachments of one message

Tasks == 1..MaxCalls
SockIds == 1..MaxSockets

VARIABLES
    mode,             \* "flow": sendMail(options, mailOptions); "api": the class used directly
    secure,           \* options.secure
    authOK,           \* options.auth.user and options.auth.pass are both given
    socket,           \* this.socket: 0 is null, else a socket id
    connected,        \* this.connected
    authenticated,    \* this.authenticated
    buffer,           \* this.buffer: the characters not yet framed
    currentHandler,   \* this.currentHandler: NoHandler or the pending one-shot handler
    errListener,      \* an 'error' listener is registered on the client (EventEmitter)
    sockets,          \* the sockets created so far: state, listeners, callbacks
    timers,           \* the armed connect timeouts, each named by the promise it rejects
    tasks,            \* the running method calls: position, awaited promise, locals
    nid,              \* message ids generated so far
    wire,             \* per connection: tokens the server sent, not yet read
    sent,             \* per connection: commands written, not yet answered
    crashed,          \* an uncaught exception ended the process
    deliv,            \* what the latest 'data' event did with its lines
    got220,           \* the connections on which a line with code 220 was received
    srvOK,            \* the server has so far greeted and answered with single success lines
    rejected,         \* the recipients whose RCPT TO the server answered with a failure
    ncont,            \* replies with a continuation line sent so far
    mailOptions,      \* the content given to _buildMessage: text, html, attachments
    message,          \* the message _buildMessage returned, as its lines
    options           \* this.options: the options given, and what the constructor made of them

sessionVars == <<mode, secure, authOK, socket, connected, authenticated, buffer,
                 currentHandler, errListener, sockets, timers, tasks, nid, wire,
                 sent, crashed, deliv, got220, srvOK, rejected, ncont>>

vars == <<sessionVars, mailOptions, message, options>>

----------------------------------------------------------------------------
\* A promise is named by the await that waits for it: the task, its place,
\* the place its method returns to, and the recipient index.
Pid(t, pc, ret, i) == [t |-> t, pc |-> pc, ret |-> ret, i |-> i]
NoPid == Pid(0, "", "", 0)

\* Reply lines.  A line on the wire is a text fragment followed by CR LF; a
\* fragment carries the status code parseInt reads, whether its text contains
\* 'STARTTLS', and (for the checks only) the command it answers, named by
\* that command's promise (NoPid: the greeting), and its place in that reply.

Frag(code, n, k, tls) == [code |-> code, n |-> n, k |-> k, tls |-> tls]

\* The single characters the framer tells apart: '\r', '\n' and a space.
CR == Frag(-1, NoPid, 0, FALSE)
LF == Frag(-3, NoPid, 0, FALSE)
SP == Frag(-4, NoPid, 0, FALSE)

\* The two bytes of a character that UTF-8 encodes in two bytes, that
\* character, and U+FFFD, which decoding yields for a byte that is not part
\* of a complete sequence.
Lead == Frag(-5, NoPid, 0, FALSE)
Trail == Frag(-6, NoPid, 0, FALSE)
Wide == Frag(-7, NoPid, 0, FALSE)
Repl == Frag(-8, NoPid, 0, FALSE)

\* data.toString(): the bytes of one chunk decoded as UTF-8
RECURSIVE toString(_)
toString(data) ==
    IF data = <<>> THEN <<>>
    ELSE IF Head(data) = Lead /\ Len(data) >= 2 /\ data[2] = Trail
    THEN <<Wide>> \o toString(SubSeq(data, 3, Len(data)))
    ELSE IF Head(data) \in {Lead, Trail} THEN <<Repl>> \o toString(Tail(data))
    ELSE <<Head(data)>> \o toString(Tail(data))

\* line.trim(): what is left of a line without its leading and trailing
\* white space (the characters in between are kept)
IsSpace(x) == x \in {SP, CR, LF}
RECURSIVE trimStart(_)
trimStart(line) ==
    IF line # <<>> /\ IsSpace(Head(line)) THEN trimStart(Tail(line)) ELSE line
RECURSIVE trimEnd(_)
trimEnd(line) ==
    IF line # <<>> /\ IsSpace(line[Len(line)])
    THEN trimEnd(SubSeq(line, 1, Len(line) - 1)) ELSE line
trim(line) == trimEnd(trimStart(line))

\* The status codes the server uses.
GreetCodes == {220, 250, 554}
OkCode == 250
FailCode == 550

\* parseInt(response.substring(0, 3))
ParseCode(line) == Head(line).code

\* What parseInt yields for a line with no number at its head: every
\* comparison with it is false.
NaN == 0 - 2

\* What parseInt may yield for the first three characters of a reply line:
\* no number, one or two digits, and three digits around the class limits.
ReplyCodes == {NaN, 2, 25, 100, 199, 200, 250, 354, 399, 400, 450, 550}
\* response.includes('STARTTLS')
IncludesSTARTTLS(line) == \E i \in 1..Len(line) : line[i].tls

\* Promise results: a resolved value or a rejection (an Error and the reply
\* line its message embeds).
NoRes == [ok |-> TRUE, kind |-> "", line |-> <<>>, inner |-> "", acc |-> <<>>, mid |-> 0]
OkRes(line) == [NoRes EXCEPT !.line = line]
ErrRes(kind, line) == [NoRes EXCEPT !.ok = FALSE, !.kind = kind, !.line = line]

NoHandler == [kind |-> "none", p |-> NoPid]

\* A task: a method call and the calls it awaits.  log is the trace of the
\* method in progress: the commands it wrote, each with its outcome.
IdleTask == [op |-> "", pc |-> "", st |-> "idle", ret |-> "", aw |-> NoPid,
             res |-> NoRes, out |-> NoRes, i |-> 0, n |-> 0, bad |-> FALSE,
             e1 |-> NoRes, log |-> <<>>]

NoSocket == [st |-> "none", lis |-> 0, once |-> NoPid, cb |-> "", cbp |-> NoPid,
             parent |-> 0, greeted |-> FALSE]

Cmd(kind, arg) == [kind |-> kind, arg |-> arg]

----------------------------------------------------------------------------
\* The state the client's code reads and writes, as one record, so that the
\* statements of a method compose in the order the code runs them.  deliv is
\* emptied at the start of every callback.

Cur == [socket |-> socket, connected |-> connected, authenticated |-> authenticated,
        buffer |-> buffer, currentHandler |-> currentHandler,
        errListener |-> errListener, sockets |-> sockets, timers |-> timers,
        tasks |-> tasks, nid |-> nid, wire |-> wire, sent |-> sent,
        crashed |-> crashed, deliv |-> <<>>, got220 |-> got220,
        srvOK |-> srvOK, rejected |-> rejected, ncont |-> ncont]

\* An uncaught exception ends the process: nothing of the session is left.
Dead ==
    [socket |-> 0, connected |-> FALSE, authenticated |-> FALSE, buffer |-> <<>>,
     currentHandler |-> NoHandler, errListener |-> FALSE,
     sockets |-> [s \in SockIds |-> NoSocket], timers |-> {},
     tasks |-> [t \in Tasks |-> IdleTask], nid |-> 0,
     wire |-> [s \in SockIds |-> <<>>], sent |-> [s \in SockIds |-> <<>>],
     crashed |-> TRUE, deliv |-> <<>>, got220 |-> {},
     srvOK |-> FALSE, rejected |-> {}, ncont |-> 0]

Apply(S0) ==
    LET S == IF S0.crashed THEN Dead ELSE S0 IN
    /\ socket' = S.socket
    /\ connected' = S.connected
    /\ authenticated' = S.authenticated
    /\ buffer' = S.buffer
    /\ currentHandler' = S.currentHandler
    /\ errListener' = S.errListener
    /\ sockets' = S.sockets
    /\ timers' = S.timers
    /\ tasks' = S.tasks
    /\ nid' = S.nid
    /\ wire' = S.wire
    /\ sent' = S.sent
    /\ crashed' = S.crashed
    /\ deliv' = S.deliv
    /\ got220' = S.got220
    /\ srvOK' = S.srvOK
    /\ rejected' = S.rejected
    /\ ncont' = S.ncont
    /\ UNCHANGED <<mode, secure, authOK, mailOptions, message, options>>

\* No continuation is waiting to run: the microtask queue is empty.
Quiet == \A t \in Tasks : tasks[t].st # "run"

\* The TCP connection a socket belongs to: a TLS socket made by startTLS
\* wraps the socket it was given.
RECURSIVE Root(_, _)
Root(socks, s) == IF socks[s].parent = 0 THEN s ELSE Root(socks, socks[s].parent)

\* No other socket wraps s: its 'data' events are delivered to its listeners.
IsTop(socks, s) == \A x \in SockIds : socks[x].st = "none" \/ socks[x].parent # s

Live(st) == st \in {"connecting", "open"}

\* socket.destroy(): the connection is torn down, every layer of it; each
\* socket emits 'close' later.
Destroy(socks, s) ==
    [x \in SockIds |->
        IF Live(socks[x].st) /\ Root(socks, x) = Root(socks, s)
        THEN [socks[x] EXCEPT !.st = "destroyed"] ELSE socks[x]]

Created(socks) == Cardinality({x \in SockIds : socks[x].st # "none"})

\* The outcome r of the command a task waits for, in the task's trace
Logged(tk, r) ==
    IF tk.log # <<>> /\ tk.log[Len(tk.log)].r = "pending"
    THEN [tk.log EXCEPT ![Len(tk.log)].r = IF r.ok THEN "ok" ELSE "fail"]
    ELSE tk.log

\* resolve(value) / reject(error) of promise p: the task awaiting it becomes
\* runnable; settling a settled promise does nothing.
Settle(ts, p, r) ==
    [t \in Tasks |->
        IF ts[t].st = "wait" /\ ts[t].aw = p
        THEN [ts[t] EXCEPT !.st = "run", !.aw = NoPid, !.res = r,
                           !.log = Logged(ts[t], r)]
        ELSE ts[t]]

\* A method returns or throws r: to the caller that awaits it, or, for the
\* outermost call, to the user.
Return(S, t, r) ==
    LET tk == S.tasks[t] IN
    IF tk.ret = ""
    THEN [S EXCEPT !.tasks[t] = [IdleTask EXCEPT !.op = tk.op, !.pc = "end",
                                                 !.st = "done", !.out = r]]
    ELSE [S EXCEPT !.tasks[t] = [IdleTask EXCEPT !.op = tk.op, !.pc = tk.ret,
                                                 !.st = "run", !.res = r,
                                                 !.out = tk.out]]

\* A call of a method from the flow: the method's first statement runs next.
Call(S, t, entry, ret) ==
    [S EXCEPT !.tasks[t] = [@ EXCEPT !.pc = entry, !.ret = ret, !.st = "run",
                                     !.res = NoRes, !.log = <<>>]]

----------------------------------------------------------------------------
\* this.buffer.split('\r\n') and lines.pop(): the segments that end with
\* CR LF, and the last segment, which stays in the buffer.
RECURSIVE SplitBuffer(_, _, _)
SplitBuffer(x, cur, acc) ==
    IF x = <<>> THEN [lines |-> acc, rest |-> cur]
    ELSE IF Len(x) >= 2 /\ x[1] = CR /\ x[2] = LF
    THEN SplitBuffer(SubSeq(x, 3, Len(x)), <<>>, Append(acc, cur))
    ELSE SplitBuffer(Tail(x), Append(cur, Head(x)), acc)

\* code >= 200 && code < 400
\* A classification that takes 4xx for success
IsSuccessBelow500(code) == code >= 200 /\ code < 500

IsSuccess(code) == code >= 200 /\ code < 400
\* code === 220
IsGreeting(code) == code = 220

\* The one-shot handler h called with a line: what its promise gets.
HandlerResult(h, line) ==
    IF h.kind = "cmd"
    THEN IF IsSuccess(ParseCode(line)) THEN OkRes(line) ELSE ErrRes("SMTP Error", line)
    ELSE IF IsGreeting(ParseCode(line)) THEN OkRes(line)
         ELSE ErrRes("Invalid greeting", line)

\* What a 'data' event does with a line, in the order it does it: the
\* 'response' event emitted with it (h.kind = "response"), and the handler h
\* called with it, slot being this.currentHandler while h runs.
Event(h, line, slot) == [h |-> h, line |-> line, slot |-> slot]
Response == [kind |-> "response", p |-> NoPid]

\* this.emit('response', line)
EmitResponse(S, line) == [S EXCEPT !.deliv = Append(@, Event(Response, line, S.currentHandler))]

\* this.currentHandler(line); this.currentHandler = null
InvokeHandler(S, line) ==
    LET h == S.currentHandler
        r == HandlerResult(h, line)
        S1 == [S EXCEPT !.tasks = Settle(@, h.p, r),
                        !.deliv = Append(@, Event(h, line, S.currentHandler))]
    IN [S1 EXCEPT !.currentHandler = NoHandler]

\* _handleResponse(line), for a line that arrived on connection c
\* A _handleResponse that emits 'response' after it has called the handler
handleResponseLate(S, line, c) ==
    LET S1 == IF ParseCode(line) = 220 THEN [S EXCEPT !.got220 = @ \cup {c}] ELSE S
        S2 == IF S1.currentHandler # NoHandler THEN InvokeHandler(S1, line) ELSE S1
    IN EmitResponse(S2, line)

handleResponse(S, line, c) ==
    LET S0 == EmitResponse(S, line)
        S1 == IF ParseCode(line) = 220 THEN [S0 EXCEPT !.got220 = @ \cup {c}] ELSE S0
    IN IF S1.currentHandler # NoHandler THEN InvokeHandler(S1, line) ELSE S1

\* for (const line of lines) { if (line.trim()) this._handleResponse(line); }
RECURSIVE handleLines(_, _, _)
handleLines(S, lines, c) ==
    IF lines = <<>> THEN S
    ELSE handleLines(IF trim(Head(lines)) # <<>> THEN handleResponse(S, Head(lines), c)
                     ELSE S,
                     Tail(lines), c)

\* _processBuffer()
processBuffer(S, c) ==
    LET sp == SplitBuffer(S.buffer, <<>>, <<>>)
    IN handleLines([S EXCEPT !.buffer = sp.rest], sp.lines, c)

\* _onData(data)
onData(S, data, c) == processBuffer([S EXCEPT !.buffer = @ \o toString(data)], c)

\* The 'data' listeners of a socket, one per _setupSocketHandlers call on it.
RECURSIVE onDataAll(_, _, _, _)
onDataAll(S, data, c, k) ==
    IF k = 0 THEN S ELSE onDataAll(onData(S, data, c), data, c, k - 1)

----------------------------------------------------------------------------
\* socket.write(command + '\r\n') on socket s, for the command of promise
\* p: it reaches the server unless the socket is gone.
Write(S, s, p, cmd) ==
    IF Live(S.sockets[s].st)
    THEN [S.sent EXCEPT ![Root(S.sockets, s)] = Append(@, [p |-> p, cmd |-> cmd])]
    ELSE S.sent

\* _sendCommand(command) awaited by task t, which continues at `next`
\* A _sendCommand that does not look at the connected flag
sendCommandUnguarded(S, t, cmd, next) ==
    LET p == Pid(t, next, S.tasks[t].ret, S.tasks[t].i)
        S1 == [S EXCEPT !.currentHandler = [kind |-> "cmd", p |-> p]]
    IN IF S.socket = 0
       THEN [S1 EXCEPT !.tasks[t] = [@ EXCEPT !.pc = next, !.st = "run",
                                              !.res = ErrRes("TypeError", <<>>)]]
       ELSE [S1 EXCEPT !.sent = Write(S, S.socket, p, cmd),
                       !.tasks[t] = [@ EXCEPT !.pc = next, !.st = "wait",
                                              !.aw = p, !.res = NoRes,
                                              !.log = Append(@, [cmd |-> cmd,
                                                                 r |-> "pending"])]]

sendCommand(S, t, cmd, next) ==
    IF ~S.connected
    THEN [S EXCEPT !.tasks[t] = [@ EXCEPT !.pc = next, !.st = "run",
                                          !.res = ErrRes("Not connected", <<>>)]]
    ELSE LET p == Pid(t, next, S.tasks[t].ret, S.tasks[t].i)
             S1 == [S EXCEPT !.currentHandler = [kind |-> "cmd", p |-> p]]
         IN IF S.socket = 0
            THEN [S1 EXCEPT !.tasks[t] = [@ EXCEPT !.pc = next, !.st = "run",
                                                   !.res = ErrRes("TypeError", <<>>)]]
            ELSE [S1 EXCEPT !.sent = Write(S, S.socket, p, cmd),
                            !.tasks[t] = [@ EXCEPT !.pc = next, !.st = "wait",
                                                   !.aw = p, !.res = NoRes,
                                                   !.log = Append(@, [cmd |-> cmd,
                                                                      r |-> "pending"])]]

\* _waitForGreeting(), whose promise p the task `aw` awaits
waitForGreeting(S, p) ==
    [S EXCEPT !.currentHandler = [kind |-> "greet", p |-> p]]

\* close()
\* A close() that forgets the authenticated flag
closeKeepsAuth(S) ==
    [S EXCEPT !.sockets = IF S.socket # 0 THEN Destroy(@, S.socket) ELSE @,
              !.socket = 0,
              !.connected = FALSE]

\* A close() that keeps the reference to the socket
closeKeepsSocket(S) ==
    [S EXCEPT !.sockets = IF S.socket # 0 THEN Destroy(@, S.socket) ELSE @,
              !.connected = FALSE,
              !.authenticated = FALSE]

close(S) ==
    [S EXCEPT !.sockets = IF S.socket # 0 THEN Destroy(@, S.socket) ELSE @,
              !.socket = 0,
              !.connected = FALSE,
              !.authenticated = FALSE]

----------------------------------------------------------------------------
\* The methods of MySMTPClient.  Each operator is the code a call runs from
\* one await to the next, for the task t standing at tasks[t].pc.

\* _setupSocketHandlers(): one more set of listeners on this.socket
setupSocketHandlers(S) == [S EXCEPT !.sockets[S.socket].lis = @ + 1]

\* net.connect / tls.connect: a new socket, its 'connect' callback cb
\* (settling promise p) and its once('error') listener
NewSocket(S, p, cb, parent) ==
    LET s == Created(S.sockets) + 1
    IN [S EXCEPT !.sockets[s] = [NoSocket EXCEPT !.st = "connecting", !.once = p,
                                                 !.cb = cb, !.cbp = p,
                                                 !.parent = parent],
                 !.socket = s]

\* connect()
connect(S, t) ==
    LET tk == S.tasks[t] IN
    IF tk.pc = "connect"
    THEN IF S.connected
         THEN Return(S, t, OkRes(<<>>))
         ELSE LET p == Pid(t, "connect_w", tk.ret, 0)
                  S1 == NewSocket(S, p, "conn", 0)
              IN [S1 EXCEPT !.timers = @ \cup {p},
                            !.tasks[t] = [@ EXCEPT !.pc = "connect_w", !.st = "wait",
                                                   !.aw = p, !.res = NoRes]]
    ELSE Return(S, t, tk.res)

\* ehlo()
ehlo(S, t) ==
    IF S.tasks[t].pc = "ehlo"
    THEN sendCommand(S, t, Cmd("EHLO", 0), "ehlo_1")
    ELSE Return(S, t, S.tasks[t].res)

\* startTLS()
startTLS(S, t) ==
    LET tk == S.tasks[t] IN
    CASE tk.pc = "startTLS" -> sendCommand(S, t, Cmd("STARTTLS", 0), "tls_1")
      [] tk.pc = "tls_1" ->
            IF ~tk.res.ok THEN Return(S, t, tk.res)
            ELSE IF S.socket = 0 THEN Return(S, t, ErrRes("TypeError", <<>>))
            ELSE LET p == Pid(t, "tls_2", tk.ret, 0)
                     S1 == NewSocket(S, p, "tls", S.socket)
                 IN [S1 EXCEPT !.tasks[t] = [@ EXCEPT !.pc = "tls_2", !.st = "wait",
                                                      !.aw = p, !.res = NoRes]]
      [] OTHER -> Return(S, t, IF tk.res.ok THEN OkRes(<<>>) ELSE tk.res)

\* new Error(`Authentication failed: ${error.message}`)
AuthFailed(e) == [ErrRes("Authentication failed", e.line) EXCEPT !.inner = e.kind]

\* this.authenticated = true; return true
LoginDone(S, t) == Return([S EXCEPT !.authenticated = TRUE], t, OkRes(<<>>))

\* catch (error) of AUTH LOGIN: AUTH PLAIN is tried
LoginPlain(S, t, error) ==
    sendCommand([S EXCEPT !.tasks[t].e1 = error], t, Cmd("AUTH PLAIN", 0), "plain_1")

\* login(), with _authCramMD5() in line
login(S, t) ==
    LET tk == S.tasks[t] IN
    CASE tk.pc = "login" ->
            IF ~authOK
            THEN Return(S, t, ErrRes("Username and password required", <<>>))
            ELSE sendCommand(S, t, Cmd("AUTH LOGIN", 0), "login_1")
      [] tk.pc = "login_1" ->
            IF tk.res.ok THEN sendCommand(S, t, Cmd("LOGIN user", 0), "login_2")
            ELSE LoginPlain(S, t, tk.res)
      [] tk.pc = "login_2" ->
            IF tk.res.ok THEN sendCommand(S, t, Cmd("LOGIN pass", 0), "login_3")
            ELSE LoginPlain(S, t, tk.res)
      [] tk.pc = "login_3" ->
            IF tk.res.ok THEN LoginDone(S, t) ELSE LoginPlain(S, t, tk.res)
      [] tk.pc = "plain_1" ->
            IF tk.res.ok THEN LoginDone(S, t)
            ELSE sendCommand(S, t, Cmd("AUTH CRAM-MD5", 0), "cram_1")
      [] tk.pc = "cram_1" ->
            IF tk.res.ok THEN sendCommand(S, t, Cmd("CRAM-MD5 response", 0), "cram_2")
            ELSE Return(S, t, AuthFailed(tk.e1))
      [] OTHER ->
            IF tk.res.ok THEN LoginDone(S, t) ELSE Return(S, t, AuthFailed(tk.e1))

\* login() of the variant in src/unnamed/part_000 (its first client): AUTH
\* LOGIN, and on any failure AUTH PLAIN, whose failure is not caught.
login_part000(S, t) ==
    LET tk == S.tasks[t]
        plain == sendCommand(S, t, Cmd("AUTH PLAIN", 0), "p0_plain_1")
    IN
    CASE tk.pc = "p0_login" ->
            IF ~authOK
            THEN Return(S, t, ErrRes("Username and password required", <<>>))
            ELSE sendCommand(S, t, Cmd("AUTH LOGIN", 0), "p0_login_1")
      [] tk.pc = "p0_login_1" ->
            IF tk.res.ok THEN sendCommand(S, t, Cmd("LOGIN user", 0), "p0_login_2")
            ELSE plain
      [] tk.pc = "p0_login_2" ->
            IF tk.res.ok THEN sendCommand(S, t, Cmd("LOGIN pass", 0), "p0_login_3")
            ELSE plain
      [] tk.pc = "p0_login_3" ->
            IF tk.res.ok THEN LoginDone(S, t) ELSE plain
      [] OTHER ->
            IF tk.res.ok THEN LoginDone(S, t) ELSE Return(S, t, tk.res)

\* The loop over recipients and the DATA that follows it
NextRcpt(S, t) ==
    LET tk == S.tasks[t] IN
    IF tk.i < tk.n
    THEN sendCommand([S EXCEPT !.tasks[t].i = tk.i + 1], t, Cmd("RCPT", tk.i + 1), "rcpt_1")
    ELSE sendCommand(S, t, Cmd("DATA", 0), "data_1")

\* A sendMail() that does not look at the authenticated flag
sendMailUnguarded(S, t, n, bad) ==
    LET tk == S.tasks[t] IN
    CASE tk.pc = "sendMail" ->
            sendCommand([S EXCEPT !.tasks[t].n = n, !.tasks[t].bad = bad,
                                  !.tasks[t].i = 0],
                        t, Cmd("MAIL", 0), "mail_1")
      [] tk.pc \in {"mail_1", "rcpt_1"} ->
            IF tk.res.ok THEN NextRcpt(S, t) ELSE Return(S, t, tk.res)
      [] tk.pc = "data_1" ->
            IF ~tk.res.ok THEN Return(S, t, tk.res)
            ELSE IF tk.bad
            THEN Return([S EXCEPT !.nid = @ + 1], t, ErrRes("Invalid attachment format", <<>>))
            ELSE sendCommand([S EXCEPT !.nid = @ + 1], t, Cmd("MSG", S.nid + 1), "msg_1")
      [] OTHER ->
            IF ~tk.res.ok THEN Return(S, t, tk.res)
            ELSE Return([S EXCEPT !.nid = @ + 1], t,
                        [OkRes(<<>>) EXCEPT !.acc = [j \in 1..tk.n |-> j],
                                            !.mid = S.nid + 1])

\* sendMail(mailOptions): n recipients; bad: an attachment that cannot be
\* processed.  _buildMessage and the returned result each generate a message id.
sendMail(S, t, n, bad) ==
    LET tk == S.tasks[t] IN
    CASE tk.pc = "sendMail" ->
            IF ~S.authenticated THEN Return(S, t, ErrRes("Not authenticated", <<>>))
            ELSE sendCommand([S EXCEPT !.tasks[t].n = n, !.tasks[t].bad = bad,
                                       !.tasks[t].i = 0],
                             t, Cmd("MAIL", 0), "mail_1")
      [] tk.pc \in {"mail_1", "rcpt_1"} ->
            IF tk.res.ok THEN NextRcpt(S, t) ELSE Return(S, t, tk.res)
      [] tk.pc = "data_1" ->
            IF ~tk.res.ok THEN Return(S, t, tk.res)
            ELSE IF tk.bad
            THEN Return([S EXCEPT !.nid = @ + 1], t, ErrRes("Invalid attachment format", <<>>))
            ELSE sendCommand([S EXCEPT !.nid = @ + 1], t, Cmd("MSG", S.nid + 1), "msg_1")
      [] OTHER ->
            IF ~tk.res.ok THEN Return(S, t, tk.res)
            ELSE Return([S EXCEPT !.nid = @ + 1], t,
                        [OkRes(<<>>) EXCEPT !.acc = [j \in 1..tk.n |-> j],
                                            !.mid = S.nid + 1])

\* quit()
\* A quit() that lets the failure of QUIT through
quitThrows(S, t) ==
    IF S.tasks[t].pc = "quit"
    THEN sendCommand(S, t, Cmd("QUIT", 0), "quit_1")
    ELSE Return(close(S), t, IF S.tasks[t].res.ok THEN OkRes(<<>>) ELSE S.tasks[t].res)

quit(S, t) ==
    IF S.tasks[t].pc = "quit"
    THEN sendCommand(S, t, Cmd("QUIT", 0), "quit_1")
    ELSE Return(close(S), t, OkRes(<<>>))

\* catch (error) { client.close(); throw error; }
Catch(S, t, error) == Return(close(S), t, error)

\* The first statement of a method called from the flow, which continues at ret.
CallConnect(S, t, ret) == connect(Call(S, t, "connect", ret), t)
CallEhlo(S, t, ret) == ehlo(Call(S, t, "ehlo", ret), t)
CallStartTLS(S, t, ret) == startTLS(Call(S, t, "startTLS", ret), t)
CallLogin(S, t, ret) == login(Call(S, t, "login", ret), t)
CallQuit(S, t, ret) == quit(Call(S, t, "quit", ret), t)

\* sendMail(options, mailOptions), the top-level flow
flow(S, t) ==
    LET tk == S.tasks[t] IN
    IF tk.pc = "flow" THEN CallConnect(S, t, "f_conn")
    ELSE IF ~tk.res.ok THEN Catch(S, t, tk.res)
    ELSE
    CASE tk.pc = "f_conn" ->
            LET p == Pid(t, "f_greet", "", 0)
            IN [waitForGreeting(S, p)
                    EXCEPT !.tasks[t] = [@ EXCEPT !.pc = "f_greet", !.st = "wait",
                                                  !.aw = p, !.res = NoRes]]
      [] tk.pc = "f_greet" -> CallEhlo(S, t, "f_ehlo")
      [] tk.pc = "f_ehlo" ->
            IF ~secure /\ IncludesSTARTTLS(tk.res.line)
            THEN CallStartTLS(S, t, "f_tls")
            ELSE CallLogin(S, t, "f_login")
      [] tk.pc = "f_tls" -> CallEhlo(S, t, "f_ehlo2")
      [] tk.pc = "f_ehlo2" -> CallLogin(S, t, "f_login")
      [] tk.pc = "f_login" -> Call(S, t, "sendMail", "f_send")
      [] tk.pc = "f_send" -> CallQuit([S EXCEPT !.tasks[t].out = tk.res], t, "f_quit")
      [] OTHER -> Return(S, t, tk.out)

----------------------------------------------------------------------------
\* _buildMessage.  A message is the array of lines that join('\r\n') puts
\* together: header lines (a Content-Type header with the boundary it
\* declares), empty lines, the delimiter lines '--b' and '--b--' of a
\* boundary b, and lines of content.

Hdr(name, val, b) == [t |-> "hdr", name |-> name, val |-> val, b |-> b]
ContentType(val, b) == Hdr("Content-Type", val, b)
Encoding(val) == Hdr("Content-Transfer-Encoding", val, "")
Blank == [t |-> "blank", name |-> "", val |-> "", b |-> ""]
Delim(b) == [t |-> "delim", name |-> "", val |-> "", b |-> b]
CloseDelim(b) == [t |-> "close", name |-> "", val |-> "", b |-> b]
\* message.push(text): a line of content; no text gives an empty line
Content(v) == IF v = "" THEN Blank ELSE [t |-> "body", name |-> "", val |-> v, b |-> ""]

\* The content a message is built from.  An attachment is a file name with
\* its content, and the content-id it may carry.
NoMail == [text |-> "", html |-> "", attachments |-> <<>>, calendarEvent |-> FALSE]
NoMessage == [by |-> "", lines |-> <<>>]
\* A text may hold several lines, one of them a line of its own with a dot
DotText == "bye\r\n.\r\nQUIT"
Texts == {"", "hello", DotText}
Htmls == {"", "<p>hello</p>", "<img src=cid:img1>"}
Att(filename, cid) == [filename |-> filename, cid |-> cid]
Attachments == {Att("a.txt", ""), Att("b.png", "img1")}
MailInputs ==
    [text : Texts, html : Htmls,
     attachments : UNION {[1..n -> Attachments] : n \in 0..MaxAtt},
     calendarEvent : BOOLEAN]

\* The lines of a string, as the line breaks it contains divide it
split(v) == IF v = DotText THEN <<"bye", ".", "QUIT">> ELSE <<v>>

\* html.includes('cid:')
IncludesCid(html) == html = "<img src=cid:img1>"

\* The headers every message starts with
Headers ==
    <<Hdr("Message-ID", "id", ""), Hdr("Date", "date", ""), Hdr("From", "from", ""),
      Hdr("To", "to", ""), Hdr("Subject", "subject", ""), Hdr("MIME-Version", "1.0", "")>>

RECURSIVE Concat(_)
Concat(ss) == IF ss = <<>> THEN <<>> ELSE Head(ss) \o Concat(Tail(ss))

\* message + '\r\n.', written by _sendCommand with '\r\n' after it: the lines
\* of the message as the server reads them, then a line with a dot
Payload(lines) ==
    Concat([j \in 1..Len(lines) |->
               IF lines[j].t = "body"
               THEN [k \in 1..Len(split(lines[j].val)) |-> Content(split(lines[j].val)[k])]
               ELSE <<lines[j]>>])
    \o <<Content(".")>>

\* message[message.length - 1] = message[message.length - 1] + '--'
\* A builder that leaves the last delimiter as it is
CloseLastNot(lines) == lines

CloseLast(lines) ==
    LET last == lines[Len(lines)]
    IN [lines EXCEPT ![Len(lines)] =
           IF last.t = "delim" THEN CloseDelim(last.b) ELSE [last EXCEPT !.t = "dashes"]]

\* The part of one attachment, as src/index.js writes it
AttachmentPart(a) ==
    <<ContentType("application/octet-stream", ""), Encoding("base64"),
      Hdr("Content-Disposition", "attachment", a.filename), Blank,
      Content(a.filename), Blank, Delim("main")>>

\* _buildMessage(from, to, subject, text, html, attachments) of src/index.js
buildMessage(m) ==
    LET hasAttachments == m.attachments # <<>>
        hasBothTextAndHtml == m.text # "" /\ m.html # ""
        body ==
            IF hasBothTextAndHtml
            THEN <<ContentType("multipart/alternative", "alt"), Blank,
                   Delim("alt"),
                   ContentType("text/plain", ""), Encoding("7bit"), Blank,
                   Content(m.text), Blank,
                   Delim("alt"),
                   ContentType("text/html", ""), Encoding("7bit"), Blank,
                   Content(m.html), Blank,
                   CloseDelim("alt"), Blank, Delim("main")>>
            ELSE IF m.text # ""
            THEN <<ContentType("text/plain", ""), Encoding("7bit"), Blank,
                   Content(m.text), Blank, Delim("main")>>
            ELSE IF m.html # ""
            THEN <<ContentType("text/html", ""), Encoding("7bit"), Blank,
                   Content(m.html), Blank, Delim("main")>>
            ELSE <<>>
    IN IF hasAttachments \/ hasBothTextAndHtml
       THEN Headers
            \o CloseLast(<<ContentType("multipart/mixed", "main"), Blank, Delim("main")>>
                         \o body
                         \o Concat([j \in 1..Len(m.attachments) |->
                                       AttachmentPart(m.attachments[j])]))
       ELSE Headers
            \o <<ContentType(IF m.html # "" THEN "text/html" ELSE "text/plain", ""),
                 Encoding("7bit"), Blank,
                 Content(IF m.html # "" THEN m.html ELSE m.text)>>

\* attachments.filter(att => att.cid) / attachments.filter(att => !att.cid)
Embedded(atts) == SelectSeq(atts, LAMBDA a : a.cid # "")
Regular(atts) == SelectSeq(atts, LAMBDA a : a.cid = "")

\* _buildMessage of the second client of src/unnamed/part_000
buildMessage_part000(m) ==
    LET hasAttachments == m.attachments # <<>>
        hasEmbeddedImages == m.html # "" /\ IncludesCid(m.html)
        hasCalendarEvent == m.calendarEvent
        mixed == hasAttachments \/ hasEmbeddedImages \/ hasCalendarEvent
        InlinePart(a) ==
            <<Blank, Delim("related"),
              ContentType("application/octet-stream", ""), Encoding("base64"),
              Hdr("Content-ID", a.cid, ""), Hdr("Content-Disposition", "inline", ""),
              Blank, Content(a.filename)>>
        RegularPart(a) ==
            <<Blank, Delim("boundary"),
              ContentType("application/octet-stream", ""), Encoding("base64"),
              Hdr("Content-Disposition", "attachment", a.filename),
              Blank, Content(a.filename)>>
    IN Headers
       \o (IF mixed
           THEN <<ContentType("multipart/mixed", "boundary"), Blank, Delim("boundary")>>
           ELSE <<>>)
       \o (IF hasCalendarEvent
           THEN <<ContentType("text/calendar", ""), Encoding("base64"), Blank,
                  Content("calendar"), Blank, Delim("boundary")>>
           ELSE <<>>)
       \o (IF hasEmbeddedImages
           THEN <<ContentType("multipart/related", "related"), Blank, Delim("related")>>
           ELSE <<>>)
       \o (IF m.html # "" /\ m.text # ""
           THEN <<ContentType("multipart/alternative", "alternative"), Blank,
                  Delim("alternative"),
                  ContentType("text/plain", ""), Encoding("7bit"), Blank,
                  Content(m.text), Blank,
                  Delim("alternative"),
                  ContentType("text/html", ""), Encoding("7bit"), Blank,
                  Content(m.html), Blank,
                  CloseDelim("alternative")>>
           ELSE IF m.html # ""
           THEN <<ContentType("text/html", ""), Encoding("7bit"), Blank, Content(m.html)>>
           ELSE <<ContentType("text/plain", ""), Encoding("7bit"), Blank, Content(m.text)>>)
       \o (IF hasEmbeddedImages
           THEN Concat([j \in 1..Len(Embedded(m.attachments)) |->
                           InlinePart(Embedded(m.attachments)[j])])
                \o <<Blank, CloseDelim("related")>>
           ELSE <<>>)
       \o (IF hasAttachments
           THEN Concat([j \in 1..Len(Regular(m.attachments)) |->
                           RegularPart(Regular(m.attachments)[j])])
           ELSE <<>>)
       \o (IF mixed THEN <<Blank, CloseDelim("boundary")>> ELSE <<>>)

\* _buildMessage(from, to, subject, text, html) of src/unnamed/part_001
buildMessage_part001(m) ==
    Headers
    \o (IF m.html # ""
        THEN <<ContentType("multipart/alternative", "boundary"), Blank,
               Delim("boundary"),
               ContentType("text/plain", ""), Encoding("7bit"), Blank,
               Content(IF m.text # "" THEN m.text
                       ELSE "This is a multi-part message in MIME format."),
               Blank,
               Delim("boundary"),
               ContentType("text/html", ""), Encoding("7bit"), Blank,
               Content(m.html), Blank,
               CloseDelim("boundary")>>
        ELSE <<ContentType("text/plain", ""), Encoding("7bit"), Blank, Content(m.text)>>)

----------------------------------------------------------------------------
\* The constructor.  An option is <<>> when it is not given (undefined) and
\* <<v>> when it has the value v.
Keys == {"service", "host", "port", "secure", "debug", "timeout"}
Absent == [k \in Keys |-> <<>>]

\* EMAIL_SERVICES: every preset gives a host, port 587 and secure false
Services == {"gmail", "outlook"}
EMAIL_SERVICES(name) ==
    [Absent EXCEPT !.host = <<IF name = "gmail" THEN "smtp.gmail.com"
                              ELSE "smtp.office365.com">>,
                   !.port = <<587>>, !.secure = <<FALSE>>]

\* The values of the fallback literals of the constructor
Defaults ==
    [Absent EXCEPT !.host = <<"smtp.gmail.com">>, !.port = <<587>>,
                   !.secure = <<FALSE>>, !.debug = <<FALSE>>, !.timeout = <<30000>>]

\* { ...a, ...b }: the keys b has win
Spread(a, b) == [k \in Keys |-> IF b[k] # <<>> THEN b[k] ELSE a[k]]

\* x || d, where falsy is the falsy value of the type of x
Or(x, falsy, d) == IF x = <<>> \/ x = <<falsy>> THEN d ELSE x

\* new MySMTPClient(options): this.options
constructor(o) ==
    IF o.service # <<>> /\ o.service[1] \in Services
    THEN Spread(EMAIL_SERVICES(o.service[1]), o)
    ELSE Spread([Absent EXCEPT !.host = Or(o.host, "", Defaults.host),
                               !.port = Or(o.port, 0, Defaults.port),
                               !.secure = Or(o.secure, FALSE, Defaults.secure),
                               !.debug = Or(o.debug, FALSE, Defaults.debug),
                               !.timeout = Or(o.timeout, 0, Defaults.timeout)],
                o)

\* The options a caller may give
ServiceInputs == {<<>>, <<"gmail">>, <<"outlook">>, <<"custom">>}
DebugInputs == {<<>>, <<TRUE>>}
OptionInputs ==
    [service : ServiceInputs,
     host : {<<>>, <<"mail.example.org">>},
     port : {<<>>, <<465>>},
     secure : {<<>>, <<FALSE>>, <<TRUE>>},
     debug : DebugInputs,
     timeout : {<<>>, <<5000>>}]

\* No client yet.  armed is <<>> until connect() arms its timer, then <<d>>
\* with d the duration given to setTimeout.
NoOptions == [by |-> "", given |-> Absent, resolved |-> Absent, armed |-> <<>>]

InitConfig ==
    /\ mode = "api" /\ secure = FALSE /\ authOK = TRUE
    /\ socket = 0 /\ connected = FALSE /\ authenticated = FALSE
    /\ buffer = <<>> /\ currentHandler = NoHandler /\ errListener = FALSE
    /\ sockets = [s \in SockIds |-> NoSocket] /\ timers = {}
    /\ tasks = [t \in Tasks |-> IdleTask] /\ nid = 0
    /\ wire = [s \in SockIds |-> <<>>] /\ sent = [s \in SockIds |-> <<>>]
    /\ crashed = FALSE /\ deliv = <<>> /\ got220 = {} /\ srvOK = TRUE
    /\ rejected = {} /\ ncont = 0
    /\ mailOptions = NoMail
    /\ message = NoMessage
    /\ options = NoOptions

Constructed(by, o) ==
    /\ options = NoOptions
    /\ options' = [by |-> by, given |-> o, resolved |-> constructor(o), armed |-> <<>>]
    /\ UNCHANGED <<sessionVars, mailOptions, message>>

\* new MySMTPClient(options)
Construct == \E o \in OptionInputs : Constructed("constructor", o)

\* sendEmail(config): the options are the service, the credentials and
\* debug, which is false when the config has none
SendEmail ==
    \E service \in ServiceInputs, debug \in DebugInputs :
        Constructed("sendEmail",
                    [Absent EXCEPT !.service = service,
                                   !.debug = IF debug = <<>> THEN <<FALSE>> ELSE debug])

\* connect(): setTimeout(..., this.options.timeout)
ArmTimeout ==
    /\ options # NoOptions /\ options.armed = <<>>
    /\ options' = [options EXCEPT !.armed = <<options.resolved.timeout>>]
    /\ UNCHANGED <<sessionVars, mailOptions, message>>

NextConfig ==
    \/ Construct
    \/ SendEmail
    \/ ArmTimeout

ConfigSpec == InitConfig /\ [][NextConfig]_vars

----------------------------------------------------------------------------
\* The state after construction.  In mode "flow" the one task is
\* sendMail(options, mailOptions), about to call connect(); in mode "api" a
\* user of the exported class calls its methods.

Init ==
    /\ mode \in {"flow", "api"}
    /\ secure \in BOOLEAN
    /\ authOK \in BOOLEAN
    /\ socket = 0
    /\ connected = FALSE
    /\ authenticated = FALSE
    /\ buffer = <<>>
    /\ currentHandler = NoHandler
    /\ errListener = FALSE
    /\ sockets = [s \in SockIds |-> NoSocket]
    /\ timers = {}
    /\ tasks = [t \in Tasks |->
                  IF mode = "flow" /\ t = 1
                  THEN [IdleTask EXCEPT !.op = "flow", !.pc = "flow", !.st = "run"]
                  ELSE IdleTask]
    /\ nid = 0
    /\ wire = [s \in SockIds |-> <<>>]
    /\ sent = [s \in SockIds |-> <<>>]
    /\ crashed = FALSE
    /\ deliv = <<>>
    /\ got220 = {}
    /\ srvOK = TRUE
    /\ rejected = {}
    /\ ncont = 0
    /\ mailOptions = NoMail
    /\ options = NoOptions
    /\ message = NoMessage

InitFlow == Init /\ mode = "flow"

Runs(t, pcs) == ~crashed /\ tasks[t].st = "run" /\ tasks[t].pc \in pcs

Methods == {"connect", "ehlo", "startTLS", "login", "sendMail", "quit", "close", "on"}

\* A user of the class calls method m (tasks are taken in order).  close()
\* and on('error', ...) are synchronous.
ApiCall(t, m) ==
    /\ mode = "api" /\ ~crashed /\ Quiet
    /\ tasks[t].st = "idle"
    /\ \A u \in Tasks : u < t => tasks[u].st # "idle"
    /\ LET done == [IdleTask EXCEPT !.op = m, !.pc = "end", !.st = "done"]
       IN Apply(CASE m = "close" -> [close(Cur) EXCEPT !.tasks[t] = done]
                  [] m = "on" -> [Cur EXCEPT !.errListener = TRUE, !.tasks[t] = done]
                  [] OTHER -> [Cur EXCEPT !.tasks[t] =
                                  [IdleTask EXCEPT !.op = m, !.pc = m, !.st = "run"]])

\* The same, by a user who awaits each call before making the next one.
ApiCallSeq(t, m) ==
    /\ \A u \in Tasks : u < t => tasks[u].st = "done"
    /\ ApiCall(t, m)

ConnectStep(t) ==
    /\ Runs(t, {"connect", "connect_w"})
    /\ tasks[t].pc = "connect" /\ ~connected => Created(sockets) < MaxSockets
    /\ Apply(connect(Cur, t))

EhloStep(t) ==
    /\ Runs(t, {"ehlo", "ehlo_1"})
    /\ Apply(ehlo(Cur, t))

StartTLSStep(t) ==
    /\ Runs(t, {"startTLS", "tls_1", "tls_2"})
    /\ tasks[t].pc = "tls_1" => Created(sockets) < MaxSockets
    /\ Apply(startTLS(Cur, t))

\* A login() that does not look at the credentials
LoginStepUnchecked(t) ==
    /\ Runs(t, {"login", "login_1", "login_2", "login_3", "plain_1", "cram_1", "cram_2"})
    /\ Apply(IF tasks[t].pc = "login"
             THEN sendCommand(Cur, t, Cmd("AUTH LOGIN", 0), "login_1")
             ELSE login(Cur, t))

LoginStep(t) ==
    /\ Runs(t, {"login", "login_1", "login_2", "login_3", "plain_1", "cram_1", "cram_2"})
    /\ Apply(login(Cur, t))

LoginPart000Step(t) ==
    /\ Runs(t, {"p0_login", "p0_login_1", "p0_login_2", "p0_login_3", "p0_plain_1"})
    /\ Apply(login_part000(Cur, t))

SendMailStep(t) ==
    /\ Runs(t, {"sendMail", "mail_1", "rcpt_1", "data_1", "msg_1"})
    /\ \E n \in 0..MaxRcpt, bad \in BOOLEAN :
          /\ tasks[t].pc # "sendMail" => n = tasks[t].n /\ bad = tasks[t].bad
          /\ Apply(sendMail(Cur, t, n, bad))

QuitStep(t) ==
    /\ Runs(t, {"quit", "quit_1"})
    /\ Apply(quit(Cur, t))

FlowStep(t) ==
    /\ Runs(t, {"flow", "f_conn", "f_greet", "f_ehlo", "f_tls", "f_ehlo2", "f_login",
                "f_send", "f_quit"})
    /\ Apply(flow(Cur, t))

----------------------------------------------------------------------------
\* The environment: Node's socket and timer events, and the server.

\* The 'connect' / 'secureConnect' callback of socket s
onConnect(S, s) ==
    LET S0 == [S EXCEPT !.sockets[s].st = "open"]
        so == S.sockets[s]
    IN IF so.cb = "conn"
       THEN LET S1 == [S0 EXCEPT !.connected = TRUE]
            IN IF S1.socket = 0 THEN [S1 EXCEPT !.crashed = TRUE]
               ELSE waitForGreeting(setupSocketHandlers(S1), so.cbp)
       ELSE IF S0.socket = 0 THEN [S0 EXCEPT !.crashed = TRUE]
            ELSE [setupSocketHandlers(S0) EXCEPT !.tasks = Settle(@, so.cbp, OkRes(<<>>))]

SockConnect(s) ==
    /\ ~crashed /\ Quiet
    /\ sockets[s].st = "connecting"
    /\ sockets[s].parent # 0 => sockets[sockets[s].parent].st = "open"
    /\ Apply(onConnect(Cur, s))

\* The places where a chunk of the stream w ends: after a CR LF.
Cuts(w) == {k \in 2..Len(w) : w[k - 1] = CR /\ w[k] = LF}

\* A chunk of the connection's stream arrives: every 'data' listener of the
\* socket runs _onData on it.
SockData(s) ==
    /\ ~crashed /\ Quiet
    /\ sockets[s].st = "open" /\ sockets[s].lis > 0 /\ IsTop(sockets, s)
    /\ LET c == Root(sockets, s)
           w == wire[c]
       IN \E k \in Cuts(w) :
            Apply(onDataAll([Cur EXCEPT !.wire[c] = SubSeq(w, k + 1, Len(w))],
                            SubSeq(w, 1, k), c, sockets[s].lis))

\* The socket's 'error' event: the once('error') listener of connect() or
\* startTLS(), then _onError, which emits 'error' on the client and so throws
\* when the client has no 'error' listener.  The socket is destroyed.
onSockError(S, s) ==
    LET so == S.sockets[s]
        e == ErrRes(IF so.cb = "conn" THEN "Connection failed" ELSE "TLS error", <<>>)
        S1 == IF so.once # NoPid
              THEN [S EXCEPT !.tasks = Settle(@, so.once, e), !.sockets[s].once = NoPid]
              ELSE S
        S2 == IF so.lis > 0 /\ ~S.errListener THEN [S1 EXCEPT !.crashed = TRUE] ELSE S1
    IN [S2 EXCEPT !.sockets = Destroy(@, s), !.srvOK = FALSE]

SockError(s) ==
    /\ ~crashed /\ Quiet
    /\ Live(sockets[s].st) /\ IsTop(sockets, s)
    /\ Apply(onSockError(Cur, s))

\* _onEnd(), once per listener set; the ended socket is then destroyed
onEnd(S, s) ==
    [S EXCEPT !.connected = IF S.sockets[s].lis > 0 THEN FALSE ELSE @,
              !.sockets = Destroy(@, s),
              !.srvOK = FALSE]

\* The peer ends the stream, after the data it sent was read.
SockEnd(s) ==
    /\ ~crashed /\ Quiet
    /\ sockets[s].st = "open" /\ IsTop(sockets, s)
    /\ sockets[s].lis > 0 => wire[Root(sockets, s)] = <<>>
    /\ Apply(onEnd(Cur, s))

\* _onClose(), once per listener set
onClose(S, s) ==
    [S EXCEPT !.connected = IF S.sockets[s].lis > 0 THEN FALSE ELSE @,
              !.sockets[s].st = "closed"]

\* The 'close' event of a destroyed socket
SockClose(s) ==
    /\ ~crashed /\ Quiet
    /\ sockets[s].st = "destroyed"
    /\ Apply(onClose(Cur, s))

\* The setTimeout callback of connect(), armed for promise p.  (A server
\* that was not reached in time did not behave.)
onTimeout(S, p) ==
    LET S1 == [S EXCEPT !.timers = @ \ {p}, !.srvOK = @ /\ S.connected]
    IN IF ~S.connected
       THEN [S1 EXCEPT !.sockets = IF S.socket # 0 THEN Destroy(@, S.socket) ELSE @,
                       !.tasks = Settle(@, p, ErrRes("Connection timeout", <<>>))]
       ELSE S1

TimerFire ==
    /\ ~crashed /\ Quiet
    /\ \E p \in timers : Apply(onTimeout(Cur, p))

\* A reply: one line, or two when the reply has a continuation line.
ReplyLines(code, n, multi, adv) ==
    <<Frag(code, n, 1, adv = 1), CR, LF>>
        \o (IF multi THEN <<Frag(code, n, 2, adv = 2), CR, LF>> ELSE <<>>)

\* The server sends a reply on connection s: to command c (its promise c.p),
\* or the greeting (c.p = NoPid).
serverSend(S, s, code, c, multi, adv) ==
    [S EXCEPT !.wire[s] = @ \o ReplyLines(code, c.p, multi, adv),
              !.ncont = IF multi THEN @ + 1 ELSE @,
              !.srvOK = @ /\ ~multi /\ adv = 0
                          /\ code = (IF c.p = NoPid THEN 220 ELSE OkCode),
              !.rejected = IF c.cmd.kind = "RCPT" /\ code = FailCode
                           THEN @ \cup {c.cmd.arg} ELSE @]

\* The server greets a new connection.
ServerGreet(s) ==
    /\ ~crashed /\ Quiet
    /\ sockets[s].st = "open" /\ sockets[s].parent = 0 /\ ~sockets[s].greeted
    /\ \E code \in GreetCodes, multi \in BOOLEAN :
          /\ multi => ncont < MaxCont
          /\ Apply(serverSend([Cur EXCEPT !.sockets[s].greeted = TRUE], s, code,
                              [p |-> NoPid, cmd |-> Cmd("", 0)], multi, 0))

\* The server answers the oldest unanswered write of connection s: success
\* or failure, with or without a continuation line; a successful EHLO reply
\* may advertise STARTTLS on its first or on its second line.
ServerReply(s) ==
    /\ ~crashed /\ Quiet
    /\ sockets[s].st = "open" /\ sockets[s].parent = 0 /\ sent[s] # <<>>
    /\ LET n == Head(sent[s]) IN
       \E ok \in BOOLEAN, multi \in BOOLEAN, adv \in 0..2 :
          /\ adv > 0 => ok /\ n.cmd.kind = "EHLO"
          /\ adv = 2 => multi
          /\ multi => ncont < MaxCont
          /\ Apply(serverSend([Cur EXCEPT !.sent[s] = Tail(@)], s,
                              IF ok THEN OkCode ELSE FailCode, n, multi, adv))

\* The server answers the oldest unanswered write of connection s with one
\* line, whatever its first three characters.
ServerReplyAny(s) ==
    /\ ~crashed /\ Quiet
    /\ sockets[s].st = "open" /\ sockets[s].parent = 0 /\ sent[s] # <<>>
    /\ \E code \in ReplyCodes :
          Apply(serverSend([Cur EXCEPT !.sent[s] = Tail(@)], s, code, Head(sent[s]),
                           FALSE, 0))

\* The bytes an arbitrary stream is made of: a letter, a space, CR, LF and
\* the two bytes of a character outside ASCII.
Text == Frag(OkCode, NoPid, 1, FALSE)
Bytes == {Text, SP, CR, LF, Lead, Trail}

\* The server (or whatever is at the other end) sends one more byte.
ServerByte(s) ==
    /\ ~crashed /\ Quiet
    /\ sockets[s].st = "open" /\ sockets[s].parent = 0 /\ sockets[s].greeted
    /\ Len(wire[s]) + Len(buffer) < MaxStream
    /\ \E b \in Bytes :
          Apply([Cur EXCEPT !.wire[s] = Append(@, b), !.srvOK = FALSE])

\* A chunk of the connection's stream arrives, ending at any byte.
SockChunk(s) ==
    /\ ~crashed /\ Quiet
    /\ sockets[s].st = "open" /\ sockets[s].lis > 0 /\ IsTop(sockets, s)
    /\ LET c == Root(sockets, s)
           w == wire[c]
       IN \E k \in 1..Len(w) :
            Apply(onDataAll([Cur EXCEPT !.wire[c] = SubSeq(w, k + 1, Len(w))],
                            SubSeq(w, 1, k), c, sockets[s].lis))

----------------------------------------------------------------------------
TaskStep(t) ==
    \/ ConnectStep(t)
    \/ EhloStep(t)
    \/ StartTLSStep(t)
    \/ LoginStep(t)
    \/ SendMailStep(t)
    \/ QuitStep(t)
    \/ FlowStep(t)

NextFlow ==
    \/ \E t \in Tasks : ConnectStep(t)
    \/ \E t \in Tasks : EhloStep(t)
    \/ \E t \in Tasks : StartTLSStep(t)
    \/ \E t \in Tasks : LoginStep(t)
    \/ \E t \in Tasks : SendMailStep(t)
    \/ \E t \in Tasks : QuitStep(t)
    \/ \E t \in Tasks : FlowStep(t)
    \/ \E s \in SockIds : SockConnect(s)
    \/ \E s \in SockIds : SockData(s)
    \/ \E s \in SockIds : SockError(s)
    \/ \E s \in SockIds : SockEnd(s)
    \/ \E s \in SockIds : SockClose(s)
    \/ TimerFire
    \/ \E s \in SockIds : ServerGreet(s)
    \/ \E s \in SockIds : ServerReply(s)

Next ==
    \/ \E t \in Tasks, m \in Methods : ApiCall(t, m)
    \/ \E t \in Tasks : ConnectStep(t)
    \/ \E t \in Tasks : EhloStep(t)
    \/ \E t \in Tasks : StartTLSStep(t)
    \/ \E t \in Tasks : LoginStep(t)
    \/ \E t \in Tasks : SendMailStep(t)
    \/ \E t \in Tasks : QuitStep(t)
    \/ \E t \in Tasks : FlowStep(t)
    \/ \E s \in SockIds : SockConnect(s)
    \/ \E s \in SockIds : SockData(s)
    \/ \E s \in SockIds : SockError(s)
    \/ \E s \in SockIds : SockEnd(s)
    \/ \E s \in SockIds : SockClose(s)
    \/ TimerFire
    \/ \E s \in SockIds : ServerGreet(s)
    \/ \E s \in SockIds : ServerReply(s)

Spec == Init /\ [][Next]_vars

\* The exported class used with one call awaited after another.
InitApi == Init /\ mode = "api"

NextApi ==
    \/ \E t \in Tasks, m \in Methods : ApiCallSeq(t, m)
    \/ \E t \in Tasks : ConnectStep(t)
    \/ \E t \in Tasks : EhloStep(t)
    \/ \E t \in Tasks : StartTLSStep(t)
    \/ \E t \in Tasks : LoginStep(t)
    \/ \E t \in Tasks : SendMailStep(t)
    \/ \E t \in Tasks : QuitStep(t)
    \/ \E s \in SockIds : SockConnect(s)
    \/ \E s \in SockIds : SockData(s)
    \/ \E s \in SockIds : SockError(s)
    \/ \E s \in SockIds : SockEnd(s)
    \/ \E s \in SockIds : SockClose(s)
    \/ TimerFire
    \/ \E s \in SockIds : ServerGreet(s)
    \/ \E s \in SockIds : ServerReply(s)

ApiSpec == InitApi /\ [][NextApi]_vars

\* Reply classification: connect() and commands, awaited one after another,
\* against a server that answers with any line, over a transport that holds.
MethodsClassify == {"connect", "ehlo", "quit"}

NextClassify ==
    \/ \E t \in Tasks, m \in MethodsClassify : ApiCallSeq(t, m)
    \/ \E t \in Tasks : ConnectStep(t)
    \/ \E t \in Tasks : EhloStep(t)
    \/ \E t \in Tasks : QuitStep(t)
    \/ \E s \in SockIds : SockConnect(s)
    \/ \E s \in SockIds : SockData(s)
    \/ \E s \in SockIds : SockClose(s)
    \/ \E s \in SockIds : ServerGreet(s)
    \/ \E s \in SockIds : ServerReplyAny(s)

ClassifySpec == InitApi /\ [][NextClassify]_vars

\* The client of src/unnamed/part_000: connect() and its login().
MethodsPart000 == {"connect", "p0_login"}

NextPart000 ==
    \/ \E t \in Tasks, m \in MethodsPart000 : ApiCallSeq(t, m)
    \/ \E t \in Tasks : ConnectStep(t)
    \/ \E t \in Tasks : LoginPart000Step(t)
    \/ \E s \in SockIds : SockConnect(s)
    \/ \E s \in SockIds : SockData(s)
    \/ \E s \in SockIds : SockError(s)
    \/ \E s \in SockIds : SockEnd(s)
    \/ \E s \in SockIds : SockClose(s)
    \/ TimerFire
    \/ \E s \in SockIds : ServerGreet(s)
    \/ \E s \in SockIds : ServerReply(s)

Part000Spec == InitApi /\ [][NextPart000]_vars

\* _buildMessage called on a new client with some content, in each of the
\* versions of the repository.
InitBuild ==
    /\ mode = "api" /\ secure = FALSE /\ authOK = TRUE
    /\ socket = 0 /\ connected = FALSE /\ authenticated = FALSE
    /\ buffer = <<>> /\ currentHandler = NoHandler /\ errListener = FALSE
    /\ sockets = [s \in SockIds |-> NoSocket] /\ timers = {}
    /\ tasks = [t \in Tasks |-> IdleTask] /\ nid = 0
    /\ wire = [s \in SockIds |-> <<>>] /\ sent = [s \in SockIds |-> <<>>]
    /\ crashed = FALSE /\ deliv = <<>> /\ got220 = {} /\ srvOK = TRUE
    /\ rejected = {} /\ ncont = 0
    /\ mailOptions \in MailInputs
    /\ options = NoOptions
    /\ message = NoMessage

\* Each call generates a message id.
Built(by, lines) ==
    /\ message = NoMessage
    /\ message' = [by |-> by, lines |-> lines]
    /\ nid' = nid + 1
    /\ UNCHANGED <<mode, secure, authOK, socket, connected, authenticated, buffer,
                   currentHandler, errListener, sockets, timers, tasks, wire,
                   sent, crashed, deliv, got220, srvOK, rejected, ncont, mailOptions,
                   options>>

BuildMessage == Built("index.js", buildMessage(mailOptions))
BuildMessagePart000 == Built("part_000", buildMessage_part000(mailOptions))
BuildMessagePart001 == Built("part_001", buildMessage_part001(mailOptions))

NextBuild ==
    \/ BuildMessage
    \/ BuildMessagePart000
    \/ BuildMessagePart001

BuildSpec == InitBuild /\ [][NextBuild]_vars

\* The framer: a connected client reads a stream of arbitrary bytes that
\* arrives in arbitrary chunks.
MethodsFramer == {"connect"}

NextFramer ==
    \/ \E t \in Tasks, m \in MethodsFramer : ApiCallSeq(t, m)
    \/ \E t \in Tasks : ConnectStep(t)
    \/ \E s \in SockIds : SockConnect(s)
    \/ \E s \in SockIds : ServerGreet(s)
    \/ \E s \in SockIds : ServerByte(s)
    \/ \E s \in SockIds : SockChunk(s)

FramerSpec == InitApi /\ [][NextFramer]_vars

\* The event loop runs every continuation and callback that is ready, the
\* network delivers what was sent, and the server answers; only a transport
\* failure (SockError, SockEnd) may stay away for ever.
Fairness ==
    /\ WF_vars(\E t \in Tasks : TaskStep(t))
    /\ WF_vars(\E s \in SockIds : SockConnect(s))
    /\ WF_vars(\E s \in SockIds : SockData(s))
    /\ WF_vars(\E s \in SockIds : SockClose(s))
    /\ WF_vars(TimerFire)
    /\ WF_vars(\E s \in SockIds : ServerGreet(s))
    /\ WF_vars(\E s \in SockIds : ServerReply(s))

FlowSpec == InitFlow /\ [][NextFlow]_vars /\ Fairness

----------------------------------------------------------------------------
\* What the claims speak of.

\* The top-level flow is task 1 of mode "flow".
FlowDone == mode = "flow" /\ tasks[1].st = "done"
FlowOK == FlowDone /\ tasks[1].out.ok /\ tasks[1].out.mid # 0

AllSocketsDestroyed == \A s \in SockIds : sockets[s].st \in {"none", "destroyed", "closed"}

\* The call of connect() made by task t resolves in this step.
ConnectResolves(t) ==
    /\ tasks[t].st = "run" /\ tasks[t].pc \in {"connect", "connect_w"}
    /\ \/ tasks'[t].st = "done" /\ tasks'[t].out.ok
       \/ tasks'[t].pc = "f_conn" /\ tasks'[t].res.ok

\* The flow waits for the reply to a command on a connection that has
\* failed, ended or closed.
PendingAtFailure ==
    /\ mode = "flow" /\ tasks[1].st = "wait"
    /\ currentHandler.kind = "cmd" /\ currentHandler.p = tasks[1].aw
    /\ \E s \in SockIds : sockets[s].st \in {"destroyed", "closed"}

\* C1: against a server that greets with one 220 line and answers every
\* command with one success line (no STARTTLS), the flow, given credentials
\* and a message that can be built, eventually returns its result.
C1_FlowReturns == <>(~srvOK \/ ~authOK \/ FlowOK
                       \/ (FlowDone /\ tasks[1].out.kind = "Invalid attachment format"))

\* C2: a pending response handler is never replaced: it leaves the slot only
\* by being invoked with a line.
C2_NeverReplaced ==
    [][(currentHandler # NoHandler /\ currentHandler' # currentHandler /\ ~crashed')
          => \E i \in 1..Len(deliv') : deliv'[i].h = currentHandler]_vars

\* C3: the line a command's handler is invoked with is the first line of the
\* server's reply to that command.
C3_Correlated ==
    \A i \in 1..Len(deliv) :
        deliv[i].h.kind = "cmd"
            => Head(deliv[i].line).n = deliv[i].h.p /\ Head(deliv[i].line).k = 1

\* C4: once the timeout of a connect() has fired, that connect() is no longer
\* pending: with the transport established and no greeting received it was rejected.
C4_TimeoutSettles ==
    \A t \in Tasks :
        tasks[t].st = "wait" /\ tasks[t].pc = "connect_w" => tasks[t].aw \in timers

\* C5: a call of connect() resolves only when a line with code 220 has been
\* received on the client's connection.
C5_ResolvesAfter220 ==
    [][\A t \in Tasks :
          ConnectResolves(t) => socket # 0 /\ Root(sockets, socket) \in got220]_vars

\* C6: when the transport fails, ends or closes while the flow waits for a
\* command's reply, the flow eventually terminates (with an error).
C6_FailurePropagates == PendingAtFailure ~> FlowDone

\* C7: whenever the flow has delivered its result or error, every socket it
\* opened is destroyed and socket = null, connected = false, authenticated = false.
C7_Cleanup ==
    FlowDone => socket = 0 /\ ~connected /\ ~authenticated /\ AllSocketsDestroyed

C7_Witness ==
    FlowOK /\ \E s \in SockIds : sockets[s].st \in {"destroyed", "closed"}

\* C8: when the server has answered an RCPT TO with 550, the send does not
\* succeed: the flow ends with an error, and the transport is closed.
C8_RcptRejected ==
    FlowDone /\ rejected # {}
        => ~tasks[1].out.ok /\ socket = 0 /\ AllSocketsDestroyed

\* The commands of one transaction, in order, for n recipients.
Transaction(n) ==
    <<Cmd("MAIL", 0)>> \o [j \in 1..n |-> Cmd("RCPT", j)] \o <<Cmd("DATA", 0), Cmd("MSG", 0)>>

InSendMail(t) == tasks[t].pc \in {"mail_1", "rcpt_1", "data_1", "msg_1"}

\* C9: the commands sendMail has written are MAIL FROM, one RCPT TO per
\* recipient in list order, DATA, the message, in this order, each written
\* only after the client saw the one before it succeed; and DATA is written
\* only if the server has rejected no RCPT TO.
C9_TransactionOrder ==
    \A t \in Tasks :
        InSendMail(t) =>
            LET L == tasks[t].log
                E == Transaction(tasks[t].n)
            IN /\ Len(L) <= Len(E)
               /\ \A j \in 1..Len(L) :
                     /\ L[j].cmd.kind = E[j].kind
                     /\ L[j].cmd.kind = "RCPT" => L[j].cmd.arg = E[j].arg
                     /\ j < Len(L) => L[j].r = "ok"
                     /\ L[j].cmd.kind = "DATA" => rejected = {}

InLogin(t) ==
    tasks[t].pc \in {"login_1", "login_2", "login_3", "plain_1", "cram_1", "cram_2"}

\* The last command of a mechanism
LastOf(kind) == kind \in {"LOGIN pass", "AUTH PLAIN", "CRAM-MD5 response"}

\* The server's reply to the command awaited at pc is a success, not yet read.
AcceptedUnread(pc) ==
    \E s \in SockIds : \E j \in 1..Len(wire[s]) :
        wire[s][j].n.pc = pc /\ wire[s][j].k = 1 /\ IsSuccess(wire[s][j].code)

\* C10: login() writes AUTH LOGIN first, and its user and password lines each
\* after the step before succeeded; AUTH PLAIN only after a LOGIN step failed;
\* AUTH CRAM-MD5 only after AUTH PLAIN failed, never when the server accepted
\* AUTH PLAIN; nothing after the last command of a mechanism succeeded; and
\* when it returns, authenticated is true.
C10_AuthOrder ==
    /\ \A t \in Tasks :
          InLogin(t) =>
            LET L == tasks[t].log IN
            /\ Len(L) >= 1 => L[1].cmd.kind = "AUTH LOGIN"
            /\ \A j \in 2..Len(L) :
                  LET k == L[j].cmd.kind
                      pk == L[j - 1].cmd.kind
                      pr == L[j - 1].r
                  IN /\ k = "LOGIN user" => pk = "AUTH LOGIN" /\ pr = "ok"
                     /\ k = "LOGIN pass" => pk = "LOGIN user" /\ pr = "ok"
                     /\ k = "AUTH PLAIN"
                           => pk \in {"AUTH LOGIN", "LOGIN user", "LOGIN pass"} /\ pr = "fail"
                     /\ k = "AUTH CRAM-MD5" => pk = "AUTH PLAIN" /\ pr = "fail"
                     /\ k = "CRAM-MD5 response" => pk = "AUTH CRAM-MD5" /\ pr = "ok"
                     /\ k \in {"AUTH LOGIN", "LOGIN user", "LOGIN pass", "AUTH PLAIN",
                               "AUTH CRAM-MD5", "CRAM-MD5 response"}
                     /\ ~(LastOf(pk) /\ pr = "ok")
                     /\ k = "AUTH CRAM-MD5" => ~AcceptedUnread("plain_1")
    /\ \A t \in Tasks :
          tasks[t].pc = "f_login" /\ tasks[t].st = "run" /\ tasks[t].res.ok => authenticated

\* The result or error with which the call of task t ends, S0 being the state
\* before its last step and S1 the state after it.
Outcome(S0, S1, t) ==
    IF S0.tasks[t].ret = "" THEN S1.tasks[t].out ELSE S1.tasks[t].res

\* C11: a login() that fails on the server's replies fails with
\* 'Authentication failed', never with the raw 'SMTP Error' of a rejected
\* command, and authenticated is false after it.
C11_AuthenticationError ==
    \A t \in Tasks :
        tasks[t].op \in {"login", "p0_login"} /\ tasks[t].st = "done" /\ ~tasks[t].out.ok
        => /\ tasks[t].out.kind # "SMTP Error"
           /\ tasks[t].out.line # <<>> => tasks[t].out.kind = "Authentication failed"
           /\ (\A u \in Tasks : u > t => tasks[u].st = "idle") => ~authenticated

\* C12: when the last mechanism, CRAM-MD5, has failed too, the error login()
\* throws is 'Authentication failed' with the failure of CRAM-MD5 in it.
C12_LastMechanism ==
    \A t \in Tasks :
        /\ ~crashed /\ tasks[t].st = "run" /\ tasks[t].pc \in {"cram_1", "cram_2"}
        /\ ~tasks[t].res.ok
        => LET r == Outcome(Cur, login(Cur, t), t)
           IN /\ r.kind = "Authentication failed"
              /\ r.line = tasks[t].res.line
              /\ r.inner = tasks[t].res.kind

\* S1 differs from S0 in nothing but the task t.
OnlyTask(S0, S1, t) ==
    /\ [S1 EXCEPT !.tasks = S0.tasks] = S0
    /\ \A u \in Tasks : u # t => S1.tasks[u] = S0.tasks[u]

C14_NotAuthenticated ==
    \A t \in Tasks :
        ~crashed /\ tasks[t].st = "run" /\ tasks[t].pc = "sendMail" /\ ~authenticated
        => \A n \in 0..MaxRcpt, bad \in BOOLEAN :
              LET S1 == sendMail(Cur, t, n, bad)
              IN /\ OnlyTask(Cur, S1, t)
                 /\ Outcome(Cur, S1, t) = ErrRes("Not authenticated", <<>>)

C14_Witness ==
    \E t \in Tasks :
        /\ connected /\ socket # 0 /\ ~authenticated
        /\ tasks[t].op = "sendMail" /\ tasks[t].st = "done"
        /\ tasks[t].out.kind = "Not authenticated"

\* The command the step from S0 to S1 has written for task t, if any.
Wrote(S0, S1, t, kind) ==
    LET L == S1.tasks[t].log
    IN /\ L # <<>> /\ L[Len(L)].cmd.kind = kind /\ L[Len(L)].r = "pending"
       /\ S1.sent # S0.sent

\* C15: when startTLS() has failed, the flow does not end there: it goes on
\* with login over the channel it has.
C15_StartTLSLenient ==
    /\ mode = "flow" /\ ~crashed
    /\ tasks[1].st = "run" /\ tasks[1].pc = "f_tls" /\ ~tasks[1].res.ok
    => flow(Cur, 1).tasks[1].st # "done"

\* C16: with secure = false the flow writes STARTTLS after the first
\* successful EHLO, and after a successful upgrade it writes the second EHLO.
C16_StartTLSAttempted ==
    mode = "flow" /\ ~crashed /\ tasks[1].st = "run" /\ tasks[1].res.ok /\ ~secure
    => /\ tasks[1].pc = "f_ehlo" => Wrote(Cur, flow(Cur, 1), 1, "STARTTLS")
       /\ tasks[1].pc = "f_tls" => Wrote(Cur, flow(Cur, 1), 1, "EHLO")

\* The session of S is closed.
Closed(S) == S.socket = 0 /\ ~S.connected /\ ~S.authenticated

\* C17: quit() never fails.  If QUIT cannot be sent it goes on without
\* writing; whatever the outcome of QUIT, it closes the transport and returns
\* normally, with socket = null, connected = false, authenticated = false.
C17_QuitNeverFails ==
    \A t \in Tasks :
        /\ tasks[t].op = "quit" /\ tasks[t].st = "done" => tasks[t].out.ok
        /\ tasks[t].pc = "f_quit" /\ tasks[t].st = "run" => tasks[t].res.ok
        /\ ~crashed /\ tasks[t].st = "run" /\ tasks[t].pc = "quit" /\ ~connected
              => LET S1 == quit(Cur, t)
                 IN /\ S1.tasks[t].st = "run" /\ S1.tasks[t].pc = "quit_1"
                    /\ S1.sent = sent /\ S1.currentHandler = currentHandler
        /\ ~crashed /\ tasks[t].st = "run" /\ tasks[t].pc = "quit_1"
              => LET S1 == quit(Cur, t)
                 IN /\ Outcome(Cur, S1, t).ok
                    /\ Closed(S1)
                    /\ socket # 0 => ~Live(S1.sockets[socket].st)

C17_Witness ==
    \E t \in Tasks :
        /\ tasks[t].op = "quit" /\ tasks[t].st = "done" /\ tasks[t].out.ok
        /\ Closed(Cur)
        /\ \E s \in SockIds : sockets[s].st \in {"destroyed", "closed"}

\* C18: from any state close() leaves socket = null, connected = false,
\* authenticated = false, with the socket destroyed; a second close() changes
\* nothing, and close() on a closed session changes nothing.
C18_CloseIdempotent ==
    LET S1 == close(Cur)
    IN /\ Closed(S1)
       /\ socket # 0 => ~Live(S1.sockets[socket].st)
       /\ close(S1) = S1
       /\ Closed(Cur) => S1 = Cur

C18_Witness ==
    \E t \in Tasks :
        /\ tasks[t].op = "close" /\ tasks[t].st = "done"
        /\ Closed(Cur)
        /\ \E s \in SockIds : sockets[s].st = "destroyed"

\* The commands a client writes
CmdKinds ==
    {"EHLO", "STARTTLS", "AUTH LOGIN", "LOGIN user", "LOGIN pass", "AUTH PLAIN",
     "AUTH CRAM-MD5", "CRAM-MD5 response", "MAIL", "RCPT", "DATA", "MSG", "QUIT"}

\* C19: on a session that is not connected, _sendCommand rejects with 'Not
\* connected', writes nothing and leaves the handler slot as it is.
C19_NotConnected ==
    ~crashed /\ ~connected =>
        \A t \in Tasks, k \in CmdKinds :
            LET S1 == sendCommand(Cur, t, Cmd(k, 0), "next")
            IN /\ S1.tasks[t].res = ErrRes("Not connected", <<>>)
               /\ S1.tasks[t].st = "run"
               /\ S1.tasks[t].log = tasks[t].log
               /\ S1.sent = sent /\ S1.wire = wire
               /\ S1.currentHandler = currentHandler
               /\ [S1 EXCEPT !.tasks = tasks] = Cur

C19_Witness ==
    \E t \in Tasks :
        /\ ~connected /\ currentHandler # NoHandler
        /\ tasks[t].st = "run" /\ tasks[t].res = ErrRes("Not connected", <<>>)
        /\ tasks[t].log = <<>>

\* C20: the command whose handler receives a line succeeds if and only if
\* the number at the head of the line is in 200..399; otherwise it fails with
\* an 'SMTP Error' that carries the line.
C20_Classification ==
    \A i \in 1..Len(deliv) :
        deliv[i].h.kind = "cmd" =>
            LET line == deliv[i].line
                c == Head(line).code
                tk == tasks[deliv[i].h.p.t]
            IN /\ tk.st = "run"
               /\ tk.res.ok <=> c \in 200..399
               /\ tk.res.ok => tk.res = OkRes(line)
               /\ ~tk.res.ok => tk.res = ErrRes("SMTP Error", line)

C20_Witness ==
    \E i \in 1..Len(deliv) :
        /\ deliv[i].h.kind = "cmd" /\ Head(deliv[i].line).code = 400
        /\ tasks[deliv[i].h.p.t].res = ErrRes("SMTP Error", deliv[i].line)

\* The lines a 'data' event passed to _handleResponse, in order.
RECURSIVE Emitted(_)
Emitted(d) ==
    IF d = <<>> THEN <<>>
    ELSE (IF Head(d).h = Response THEN <<Head(d).line>> ELSE <<>>) \o Emitted(Tail(d))

\* The stream w of connection c read in one chunk (k = Len(w)), or in two
\* chunks, the first of k bytes.
Feed(S, w, k, c) ==
    IF k = Len(w) THEN onData(S, w, c)
    ELSE onData(onData(S, SubSeq(w, 1, k), c), SubSeq(w, k + 1, Len(w)), c)

\* C21: however the bytes that are to come are split into chunks, the same
\* lines are passed to _handleResponse, in the same order, and the same
\* buffer is left.
C21_ChunkInvariance ==
    \A c \in SockIds :
        ~crashed /\ wire[c] # <<>> =>
            LET w == wire[c]
                S1 == Feed(Cur, w, Len(w), c)
            IN \A k \in 1..Len(w) :
                  /\ Emitted(Feed(Cur, w, k, c).deliv) = Emitted(S1.deliv)
                  /\ Feed(Cur, w, k, c).buffer = S1.buffer

\* The places of the CR LF pairs of a text
CRLFAt(x) == {i \in 1..(Len(x) - 1) : x[i] = CR /\ x[i + 1] = LF}

\* The j-th segment of a text that is terminated by CR LF
Segment(x, j) ==
    LET P == CRLFAt(x)
        Nth(n) == CHOOSE i \in P : Cardinality({q \in P : q < i}) = n - 1
    IN SubSeq(x, IF j = 1 THEN 1 ELSE Nth(j - 1) + 2, Nth(j) - 1)

Segments(x) == [j \in 1..Cardinality(CRLFAt(x)) |-> Segment(x, j)]

\* What follows the last CR LF of a text
Remainder(x) ==
    LET P == CRLFAt(x)
    IN IF P = {} THEN x
       ELSE SubSeq(x, (CHOOSE i \in P : \A q \in P : q <= i) + 2, Len(x))

\* C22: the lines a 'data' event passes to _handleResponse are all the
\* segments of the buffered text that end with CR LF, in order, the empty
\* ones and those of white space included.
C22_EverySegment ==
    \A c \in SockIds :
        ~crashed /\ wire[c] # <<>> =>
            Emitted(onData(Cur, wire[c], c).deliv)
                = Segments(buffer \o toString(wire[c]))

\* C23: every call of a handler with a line comes right after the 'response'
\* event of that line, and a pending handler is called with the line whose
\* 'response' event found it pending; a line that finds no handler pending
\* emits 'response' and changes nothing of the session.
C23_TranscriptFirst ==
    /\ \A i \in 1..Len(deliv) :
          /\ deliv[i].h # Response
                => /\ i > 1
                   /\ deliv[i - 1] = Event(Response, deliv[i].line, deliv[i].h)
          /\ deliv[i].h = Response /\ deliv[i].slot # NoHandler
                => /\ i < Len(deliv)
                   /\ deliv[i + 1].h = deliv[i].slot
                   /\ deliv[i + 1].line = deliv[i].line
    /\ ~crashed /\ currentHandler = NoHandler
          => \A c \in SockIds :
                LET lines == SplitBuffer(buffer \o toString(wire[c]), <<>>, <<>>).lines
                IN \A j \in 1..Len(lines) :
                      trim(lines[j]) # <<>>
                          => LET S1 == handleResponse(Cur, lines[j], c)
                             IN /\ S1.deliv = <<Event(Response, lines[j], NoHandler)>>
                                /\ [S1 EXCEPT !.deliv = <<>>, !.got220 = got220] = Cur

C23_Witness ==
    /\ \E i \in 1..Len(deliv) : deliv[i].h.kind = "cmd"
    /\ \E i \in 1..Len(deliv) : deliv[i].h = Response /\ deliv[i].slot = NoHandler
    /\ connected

\* C24: after a connect() that failed on a greeting other than 220 the
\* session is not connected, and the next connect() opens a new socket and
\* waits for its greeting.
C24_RetryAfterBadGreeting ==
    \A t \in Tasks :
        /\ tasks[t].op = "connect" /\ tasks[t].st = "done"
        /\ tasks[t].out.kind = "Invalid greeting"
        /\ \A u \in Tasks : u > t => tasks[u].st = "idle"
        => /\ ~connected
           /\ \A u \in Tasks :
                 u > t /\ Created(sockets) < MaxSockets
                 => LET S0 == [Cur EXCEPT !.tasks[u] =
                                  [IdleTask EXCEPT !.op = "connect", !.pc = "connect",
                                                   !.st = "run"]]
                        S1 == connect(S0, u)
                    IN /\ S1.socket \notin {0, socket}
                       /\ S1.tasks[u].st = "wait"

\* Reading a built message back.  The boundaries its Content-Type headers declare:
Declared(msg) ==
    {msg[i].b : i \in {j \in 1..Len(msg) : msg[j].name = "Content-Type" /\ msg[j].b # ""}}

\* The type of the container that declares boundary b
ContainerType(msg, b) ==
    (CHOOSE l \in {msg[i] : i \in 1..Len(msg)} : l.name = "Content-Type" /\ l.b = b).val

\* The message split at its delimiter lines: each piece with the boundary of
\* the delimiter before it ("top": the start of the message; "": what
\* follows a closing delimiter).
RECURSIVE SplitAtBoundaries(_, _, _, _, _)
SplitAtBoundaries(lines, B, cur, in, acc) ==
    IF lines = <<>> THEN Append(acc, [lines |-> cur, in |-> in])
    ELSE LET l == Head(lines) IN
         IF l.t \in {"delim", "close"} /\ l.b \in B
         THEN SplitAtBoundaries(Tail(lines), B, <<>>, IF l.t = "delim" THEN l.b ELSE "",
                                Append(acc, [lines |-> cur, in |-> in]))
         ELSE SplitAtBoundaries(Tail(lines), B, Append(cur, l), in, acc)

\* The headers of a piece end at its first empty line; its body follows.
HeaderEnd(x) ==
    IF \E i \in 1..Len(x) : x[i] = Blank
    THEN CHOOSE i \in 1..Len(x) : x[i] = Blank /\ \A j \in 1..(i - 1) : x[j] # Blank
    ELSE Len(x) + 1
HeaderOf(x, name) ==
    LET H == {i \in 1..(HeaderEnd(x) - 1) : x[i].name = name}
    IN IF H = {} THEN Hdr(name, "", "") ELSE x[CHOOSE i \in H : TRUE]
RECURSIVE StripBlanks(_)
StripBlanks(x) ==
    IF x # <<>> /\ x[Len(x)] = Blank THEN StripBlanks(SubSeq(x, 1, Len(x) - 1)) ELSE x
BodyOf(x) == StripBlanks(SubSeq(x, HeaderEnd(x) + 1, Len(x)))

\* The body parts of a message, in order: the pieces that are an entity (they
\* follow a delimiter or start the message) and are not a container.
PartOf(msg, piece) ==
    [type |-> HeaderOf(piece.lines, "Content-Type").val,
     encoding |-> HeaderOf(piece.lines, "Content-Transfer-Encoding").val,
     cid |-> HeaderOf(piece.lines, "Content-ID").val,
     disposition |-> HeaderOf(piece.lines, "Content-Disposition").val,
     filename |-> HeaderOf(piece.lines, "Content-Disposition").b,
     content |-> BodyOf(piece.lines),
     in |-> IF piece.in = "top" THEN "" ELSE ContainerType(msg, piece.in)]
IsPart(piece) ==
    /\ piece.in # ""
    /\ HeaderOf(piece.lines, "Content-Type").val # ""
    /\ HeaderOf(piece.lines, "Content-Type").b = ""
Parts(msg) ==
    LET pieces == SelectSeq(SplitAtBoundaries(msg, Declared(msg), <<>>, "top", <<>>), IsPart)
    IN [j \in 1..Len(pieces) |-> PartOf(msg, pieces[j])]

HasAttachments(m) == m.attachments # <<>>
HasBoth(m) == m.text # "" /\ m.html # ""
HasInline(m) == \E j \in 1..Len(m.attachments) : m.attachments[j].cid # ""

\* C25: for a mail without a calendar event, whose HTML refers to inline
\* content only if an attachment carries it: the message is a single part,
\* text/plain or text/html in 7bit, exactly when there are no attachments, no
\* inline content and not both text and HTML; otherwise its top-level
\* Content-Type is multipart/mixed with a boundary.
C25_DecisionTree ==
    /\ message.by \in {"index.js", "part_000"}
    /\ ~mailOptions.calendarEvent
    /\ IncludesCid(mailOptions.html) => HasInline(mailOptions)
    => LET top == HeaderOf(message.lines, "Content-Type")
           single == /\ top.val \in {"text/plain", "text/html"} /\ top.b = ""
                     /\ HeaderOf(message.lines, "Content-Transfer-Encoding").val = "7bit"
                     /\ Declared(message.lines) = {}
           simple == /\ ~HasAttachments(mailOptions) /\ ~HasInline(mailOptions)
                     /\ ~HasBoth(mailOptions)
       IN /\ simple <=> single
          /\ ~simple => top.val = "multipart/mixed" /\ top.b # ""

\* What was supplied: the text, then the HTML.
Supplied(m) ==
    (IF m.text # "" THEN <<[type |-> "text/plain", content |-> <<Content(m.text)>>]>>
     ELSE <<>>)
    \o (IF m.html # "" THEN <<[type |-> "text/html", content |-> <<Content(m.html)>>]>>
        ELSE <<>>)

\* C26: the body parts of a message built from text, from HTML or from both
\* (and nothing else) are the parts supplied, each with its content (up to
\* the line break before a delimiter), the text before the HTML.
C26_RoundTrip ==
    /\ message.by \in {"index.js", "part_001"}
    /\ ~HasAttachments(mailOptions) /\ ~mailOptions.calendarEvent
    /\ mailOptions.text # "" \/ mailOptions.html # ""
    => LET P == Parts(message.lines)
       IN [j \in 1..Len(P) |-> [type |-> P[j].type, content |-> P[j].content]]
              = Supplied(mailOptions)

\* The lines of msg that are the delimiter / the closing delimiter of b
DelimAt(msg, b) == {i \in 1..Len(msg) : msg[i] = Delim(b)}
CloseAt(msg, b) == {i \in 1..Len(msg) : msg[i] = CloseDelim(b)}
DeclaredAt(msg, b) == {i \in 1..Len(msg) : msg[i].name = "Content-Type" /\ msg[i].b = b}

\* C27: in every built message each container is declared once, has
\* exactly one closing delimiter, which comes after all its delimiters and
\* after the content of its last child; a container declared inside another
\* one is closed before it; and no line is left with stray dashes.
C27_ClosedOnce ==
    message.by # "" =>
        LET msg == message.lines IN
        /\ \A i \in 1..Len(msg) : msg[i].t # "dashes"
        /\ \A i \in 1..Len(msg) : msg[i].t \in {"delim", "close"} => msg[i].b \in Declared(msg)
        /\ \A b \in Declared(msg) :
              /\ Cardinality(DeclaredAt(msg, b)) = 1
              /\ Cardinality(CloseAt(msg, b)) = 1
              /\ DelimAt(msg, b) # {}
              /\ \A c \in CloseAt(msg, b), d \in DelimAt(msg, b), h \in DeclaredAt(msg, b) :
                    h < d /\ d + 1 < c
              /\ \A b2 \in Declared(msg) :
                    \A h \in DeclaredAt(msg, b), h2 \in DeclaredAt(msg, b2),
                       c \in CloseAt(msg, b), c2 \in CloseAt(msg, b2) :
                          h < h2 => c2 < c

C27_Witness ==
    /\ message.by = "index.js"
    /\ Len(mailOptions.attachments) = MaxAtt /\ HasBoth(mailOptions)
    /\ Cardinality(Declared(message.lines)) = 2

\* C28: from the attachments a.txt (no content-id) and b.png (content-id
\* img1) and an HTML body that refers to cid:img1, the message has a part
\* with Content-ID img1 and Content-Disposition inline in a multipart/related
\* container and a part for a.txt with Content-Disposition attachment in the
\* multipart/mixed container.
C28_InlineAndAttached ==
    /\ message.by \in {"index.js", "part_000"}
    /\ mailOptions.attachments = <<Att("a.txt", ""), Att("b.png", "img1")>>
    /\ IncludesCid(mailOptions.html)
    => LET P == Parts(message.lines)
       IN /\ \E j \in 1..Len(P) :
                /\ P[j].cid = "img1" /\ P[j].disposition = "inline"
                /\ P[j].in = "multipart/related"
          /\ \E j \in 1..Len(P) :
                /\ P[j].filename = "a.txt" /\ P[j].disposition = "attachment"
                /\ P[j].in = "multipart/mixed"

\* C29: after the bytes that are to come, in one chunk or in two, the buffer
\* holds the characters of the stream that follow its last CR LF.
C29_BufferRemainder ==
    \A c \in SockIds :
        ~crashed /\ wire[c] # <<>> =>
            \A k \in 1..Len(wire[c]) :
                Feed(Cur, wire[c], k, c).buffer = Remainder(buffer \o toString(wire[c]))

\* C30: while a handler runs the slot is empty, and no handler is called
\* with more than one line.
C30_OneShot ==
    \A i \in 1..Len(deliv) :
        deliv[i].h # Response
            => /\ deliv[i].slot = NoHandler
               /\ \A j \in 1..Len(deliv) : deliv[j].h = deliv[i].h => j = i

\* C32: a session that is marked authenticated is connected.
C32_AuthenticatedIsConnected == authenticated => connected

\* C33: login() marks the session authenticated only on a success line that
\* the server sent as the first line of its reply to the last command of a
\* mechanism, the command login() is waiting for.
C33_AuthenticatedByFinalReply ==
    \A t \in Tasks :
        /\ ~crashed /\ tasks[t].st = "run" /\ tasks[t].res.ok
        /\ tasks[t].pc \in {"login_3", "plain_1", "cram_2"}
        /\ login(Cur, t).authenticated
        => LET l == Head(tasks[t].res.line)
           IN l.n.t = t /\ l.n.pc = tasks[t].pc /\ l.k = 1

\* C35: with a message that cannot be built, sendMail() never writes DATA.
C35_BuildFailsBeforeData ==
    \A t \in Tasks :
        InSendMail(t) /\ tasks[t].bad
            => \A j \in 1..Len(tasks[t].log) : tasks[t].log[j].cmd.kind # "DATA"

\* C36: sendMail() writes DATA only after an RCPT TO that succeeded, and the
\* result it returns names at least one accepted recipient.
C36_DataAfterRcpt ==
    \A t \in Tasks :
        InSendMail(t) =>
            LET L == tasks[t].log IN
            /\ \A j \in 1..Len(L) :
                  L[j].cmd.kind = "DATA"
                      => \E i \in 1..(j - 1) : L[i].cmd.kind = "RCPT" /\ L[i].r = "ok"
            /\ ~crashed /\ tasks[t].st = "run" /\ tasks[t].pc = "msg_1" /\ tasks[t].res.ok
                  => Outcome(Cur, sendMail(Cur, t, tasks[t].n, tasks[t].bad), t).acc # <<>>

\* C37: the messageId sendMail() returns is the id in the Message-ID header
\* of the message it has written.
C37_SameMessageId ==
    \A t \in Tasks :
        /\ ~crashed /\ tasks[t].st = "run" /\ tasks[t].pc = "msg_1" /\ tasks[t].res.ok
        => LET L == tasks[t].log
               r == Outcome(Cur, sendMail(Cur, t, tasks[t].n, tasks[t].bad), t)
           IN L # <<>> /\ L[Len(L)].cmd.kind = "MSG" /\ r.mid = L[Len(L)].cmd.arg

\* C38: every socket that was opened and is not destroyed is the client's
\* current socket, or the socket that one wraps.
C38_OneLiveTransport ==
    \A s \in SockIds :
        Live(sockets[s].st)
            => socket # 0 /\ (s = socket \/ Root(sockets, socket) = s)


\* The parts of a message that carry the attachment a, inline or attached.
Carrying(msg, a) ==
    LET P == Parts(msg)
    IN {j \in 1..Len(P) :
           /\ P[j].content = <<Content(a.filename)>>
           /\ P[j].disposition \in {"inline", "attachment"}}
Occurrences(atts, a) == {j \in 1..Len(atts) : atts[j] = a}

\* C39: every attachment of the attachment list is carried by exactly one
\* part of the built message, an inline part or an attachment part, whether
\* or not the HTML refers to a content-id.
C39_EveryAttachmentOnce ==
    message.by \in {"index.js", "part_000"}
        => \A a \in Attachments :
              Cardinality(Carrying(message.lines, a))
                  = Cardinality(Occurrences(mailOptions.attachments, a))


\* The lines of a payload that consist of a dot
DotLines(P) == {i \in 1..Len(P) : P[i] = Content(".")}

\* C34: the payload written after DATA has exactly one line that consists
\* of a dot, its last line, whatever the text and the HTML contain.
C34_OneDotLine ==
    message # NoMessage
        => LET P == Payload(message.lines) IN DotLines(P) = {Len(P)}


\* The preset the options name, if they name one
Preset(o) ==
    IF o.service # <<>> /\ o.service[1] \in Services
    THEN EMAIL_SERVICES(o.service[1]) ELSE Absent

\* The base defaults, overlaid by the preset, overlaid by the options
Layered(o) == Spread(Spread(Defaults, Preset(o)), o)

\* C31: the resolved configuration is the base defaults overlaid by the
\* named preset overlaid by the options given, and the timer of connect() is
\* armed with a duration: 30000 when no timeout is given.
C31_Layering ==
    options # NoOptions =>
        /\ options.resolved = Layered(options.given)
        /\ options.given.timeout = <<>> => options.resolved.timeout = <<30000>>
        /\ options.armed # <<>> => options.armed[1] # <<>>

====
